---- MODULE Spec2Model ----
(***************************************************************************)
(* Model of download_hybrid.py: the progress ledger (DownloadProgress),    *)
(* the payload capturer (download_with_browser) and the per-identifier     *)
(* loop of main().                                                         *)
(***************************************************************************)
EXTENDS Integers, Sequences, FiniteSets, TLC

(***************************************************************************)
(* Bounds of the model and constants of the program.                       *)
(***************************************************************************)
\* number of ledger calls explored by LedgerSpec
MaxOps == 4
\* len(SCIHUB_MIRRORS)
NumMirrors == 2
\* MAX_WAIT_TIME, seconds
MAX_WAIT_TIME == 180
\* CHECK_INTERVAL, seconds
CHECK_INTERVAL == 1
\* the size literal of "st_size > 1000"
MIN_SIZE == 1000

\* the identifiers of the input file, in file order
AllDois == <<"10.1/a", "10.1/b">>
DOIS == {AllDois[k] : k \in 1..Len(AllDois)}
\* a target file that does not exist
NoFile == -1
\* sizes a saved file can have: exactly the threshold, just above it
Sizes == {MIN_SIZE, MIN_SIZE + 1}
\* wall-clock cost of one iteration of the poll loop: the sleep of
\* CHECK_INTERVAL plus the page round trips, sampled
PollCosts == {CHECK_INTERVAL * 60, CHECK_INTERVAL * 100}

VARIABLES
  \* DownloadProgress and the file behind it
  data,        \* self.data: downloaded, failed, last_update
  disk,        \* PROGRESS_FILE: missing, json (with its content) or partial
  now,         \* logical clock behind datetime.now()
  \* history of the ledger calls
  lastOp,      \* the last mark call, <<name, doi>>
  prevOp,      \* the mark call before it
  prevData,    \* self.data before the last mark call
  ops,         \* number of mark calls made
  \* main()
  pc,          \* position of main() in its code
  dois,        \* extract_valid_dois(DOI_CSV_PATH)
  pending,     \* pending_dois
  i,           \* index into pending_dois (1-based)
  m,           \* index into SCIHUB_MIRRORS (1-based)
  downloaded,  \* local flag of the per-identifier loop
  pdf_ready,   \* local flag of the poll loop
  elapsed,     \* time.time() - wait_start
  snap,        \* what the last poll saw on the page
  cls,         \* how the last poll classified it
  files,       \* OUTPUT_DIR: size of each identifier's target file
  page,        \* the page the variable `page` refers to: unbound, open, closed,
               \* or stuck (still open after a close() that raised)
  newpage,     \* the isolated page of the indirect strategy: none, open, closed, stuck
  leaked,      \* pages left open with no variable referring to them: <<kind, state>>
  interrupted, \* a KeyboardInterrupt ended this run
  \* history of the run
  lastOutcome, \* how the latest finished mirror attempt ended
  capturedAt,  \* the first mirror at which a capture succeeded for this identifier, or 0
  started,     \* mirror attempts begun for the current identifier
  tried,       \* result of each capture strategy of the current capture, in order
  ret,         \* what the last download_with_browser call returned
  excFrom,     \* where the exception main() is handling was raised
  marks,       \* for each index of pending_dois, the mark calls made for it
  opened,      \* indices of pending_dois for which a page open was attempted
  probed,      \* indices for which a poll or a capture strategy ran
  sizeSeen,    \* for each index, the file size the existing-file check saw
  startData    \* self.data as loaded at the start of the run

ledgerVars == <<data, disk, now, lastOp, prevOp, prevData, ops>>
mainVars == <<pc, dois, pending, i, m, downloaded, pdf_ready, elapsed,
              snap, cls, files, page, newpage, leaked, interrupted>>
histVars == <<lastOutcome, capturedAt, started, tried, ret, excFrom, marks, opened,
              probed, sizeSeen, startData>>
vars == <<ledgerVars, mainVars, histVars>>

(***************************************************************************)
(* Sequences as Python lists.                                              *)
(***************************************************************************)
\* x in s
In(x, s) == \E k \in 1..Len(s) : s[k] = x

\* s.remove(x): drops the first occurrence of x
RECURSIVE Remove(_, _)
Remove(s, x) ==
  IF s = <<>> THEN <<>>
  ELSE IF Head(s) = x THEN Tail(s)
  ELSE <<Head(s)>> \o Remove(Tail(s), x)

\* number of occurrences of x in s
Count(x, s) == Cardinality({k \in 1..Len(s) : s[k] = x})

\* the elements of s
Elems(s) == {s[k] : k \in 1..Len(s)}

(***************************************************************************)
(* DownloadProgress                                                        *)
(***************************************************************************)
\* self.data as __init__ sets it; last_update 0 is None
EmptyData == [downloaded |-> <<>>, failed |-> <<>>, last_update |-> 0]

\* PROGRESS_FILE absent / cut short by a failed or interrupted write
MissingFile == [kind |-> "missing", downloaded |-> <<>>, failed |-> <<>>, last_update |-> 0]
PartialFile == [kind |-> "partial", downloaded |-> <<>>, failed |-> <<>>, last_update |-> 0]

\* Python's None where a list is expected, written as a one-element tuple
\* that no list of identifiers equals
None == <<"None">>

\* PROGRESS_FILE holding {"downloaded": null}: it parses, and it is not
\* what save() writes
WrongShapeFile == [kind |-> "json", downloaded |-> None, failed |-> <<>>, last_update |-> 0]

\* load(): a parseable file updates self.data, anything else leaves the
\* defaults; the print after the update raises on a wrong shape and the
\* except clause swallows it, the update staying in place
load(f) ==
  IF f.kind = "json"
  THEN [downloaded |-> f.downloaded, failed |-> f.failed, last_update |-> f.last_update]
  ELSE EmptyData

\* how the write of save() can end
SaveOutcomes == {"ok", "open_error", "write_error", "interrupt"}

\* a save() that leaves the file as it was
save_lazy(d, old, out) == old

\* save(): stamps self.data, then rewrites the file in full; an open() that
\* raises leaves the old file, a write that raises or is interrupted leaves
\* a truncated one
save(d, old, out) ==
  CASE out = "ok" -> [kind |-> "json", downloaded |-> d.downloaded,
                      failed |-> d.failed, last_update |-> d.last_update]
    [] out = "open_error" -> old
    [] OTHER -> PartialFile

\* an is_processed that looks at the downloaded list only
is_processed_downloaded_only(d, doi) == In(doi, d.downloaded)

is_processed(d, doi) == In(doi, d.downloaded) \/ In(doi, d.failed)

\* `doi in self.data["downloaded"]` raises TypeError
is_processed_raises(d) == d.downloaded = None

\* mark_downloaded without its membership test
mark_downloaded_noguard(d, doi) ==
  [d EXCEPT !.downloaded = Append(d.downloaded, doi),
            !.failed = IF In(doi, d.failed) THEN Remove(d.failed, doi) ELSE d.failed]

\* mark_downloaded that forgets to clear the failed entry
mark_downloaded_keepfailed(d, doi) ==
  [d EXCEPT !.downloaded = IF ~In(doi, d.downloaded) THEN Append(d.downloaded, doi)
                           ELSE d.downloaded]

\* the in-memory part of mark_downloaded
mark_downloaded(d, doi) ==
  [d EXCEPT !.downloaded = IF ~In(doi, d.downloaded) THEN Append(d.downloaded, doi)
                           ELSE d.downloaded,
            !.failed = IF In(doi, d.failed) THEN Remove(d.failed, doi) ELSE d.failed]

\* mark_failed that does not look at the downloaded list
mark_failed_overwrite(d, doi) ==
  [d EXCEPT !.failed = IF ~In(doi, d.failed) THEN Append(d.failed, doi) ELSE d.failed]

\* the in-memory part of mark_failed
mark_failed(d, doi) ==
  [d EXCEPT !.failed = IF ~In(doi, d.failed) /\ ~In(doi, d.downloaded)
                       THEN Append(d.failed, doi) ELSE d.failed]

get_stats(d) == <<Len(d.downloaded), Len(d.failed)>>

\* one call of mark_downloaded or mark_failed, its save() ending as `out`
Mark(name, doi, out) ==
  /\ now' = now + 1
  /\ data' = [(IF name = "mark_downloaded" THEN mark_downloaded(data, doi)
               ELSE mark_failed(data, doi)) EXCEPT !.last_update = now + 1]
  /\ disk' = save(data', disk, out)
  /\ prevData' = data
  /\ prevOp' = lastOp
  /\ lastOp' = <<name, doi>>
  /\ ops' = ops + 1

NoOp == <<"none", "none">>

(***************************************************************************)
(* The content detector: one poll of main()'s wait loop.                   *)
(***************************************************************************)
\* elements the selectors of the poll look for
Markers == {"embed", "iframe", "link", "button"}

\* what the four selectors can find on a page, sampled: nothing, one kind
\* of element, all of them
PageContents == {{}, Markers} \cup {{x} : x \in Markers}

\* has_content: the or-chain of the four query_selector calls
has_content(ms) ==
  "embed" \in ms \/ "iframe" \in ms \/ "link" \in ms \/ "button" \in ms

\* what one poll sees: the two title tests and has_content; before the
\* first poll, nothing
NoSnap == [robot |-> FALSE, unavailable |-> FALSE, content |-> FALSE]

\* a poll that looks at the content before the title
classify_content_first(s) ==
  IF s.content THEN "READY"
  ELSE IF s.robot THEN "CHALLENGE"
  ELSE IF s.unavailable THEN "UNAVAILABLE"
  ELSE "LOADING"

\* the if-chain of the loop body: robot title, not-available title, content
classify(s) ==
  IF s.robot THEN "CHALLENGE"
  ELSE IF s.unavailable THEN "UNAVAILABLE"
  ELSE IF s.content THEN "READY"
  ELSE "LOADING"

\* a wait loop whose challenge branch does not let time pass
poll_cost_nosleep(c, cost) == IF c = "CHALLENGE" THEN 0 ELSE cost

\* the time one iteration that stays in the loop takes
poll_cost(c, cost) == cost

\* the loop condition: time.time() - wait_start < MAX_WAIT_TIME
may_poll(e) == e < MAX_WAIT_TIME

(***************************************************************************)
(* File checks.                                                            *)
(***************************************************************************)
\* an existing-file check with the threshold ten times too high
file_present_strict(size) == size # NoFile /\ size > MIN_SIZE * 10

\* main(): pdf_path.exists() and pdf_path.stat().st_size > 1000
file_present(size) == size # NoFile /\ size > MIN_SIZE

\* a size test after save_as that accepts a file of exactly the threshold
capture_valid_loose(size) == size # NoFile /\ size >= MIN_SIZE

\* download_with_browser(): the same test after each save_as
capture_valid(size) == size # NoFile /\ size > MIN_SIZE

(***************************************************************************)
(* download_with_browser: what follows a strategy that ended as `res`.     *)
(*   res: "absent" (no element), "raised", "small" (saved, size test       *)
(*   false), "ok" (saved, size test true)                                  *)
(***************************************************************************)
\* a capturer whose first strategy has no try/except of its own
after_strategy_unguarded(k, res) ==
  IF res = "ok" THEN "return_true"
  ELSE IF res = "raised" /\ k = 1 THEN "propagate"
  ELSE IF k < 3 THEN "next" ELSE "return_false"

\* a capturer that gives up at the first strategy that raises
after_strategy_abort(k, res) ==
  IF res = "ok" THEN "return_true"
  ELSE IF res = "raised" \/ k = 3 THEN "return_false"
  ELSE "next"

\* success returns True; anything else falls through to the next strategy,
\* and past the third to "return False"
after_strategy(k, res) ==
  IF res = "ok" THEN "return_true"
  ELSE IF k < 3 THEN "next" ELSE "return_false"

\* the result of a strategy that saved a file of size s
saved_result(s) == IF capture_valid(s) THEN "ok" ELSE "small"

(***************************************************************************)
(* Initial state: main() is started.  The progress file is absent, cut     *)
(* short, of the wrong shape, or what save() wrote when an earlier run     *)
(* recorded the last identifier of the input.                              *)
(***************************************************************************)
Idx == 1..Len(AllDois)
Unseen == NoFile - 1
Last == AllDois[Len(AllDois)]

InitDisks ==
  { MissingFile, PartialFile, WrongShapeFile,
    save([EmptyData EXCEPT !.downloaded = <<Last>>], MissingFile, "ok"),
    save([EmptyData EXCEPT !.failed = <<Last>>], MissingFile, "ok") }

InitLedger ==
  /\ data = EmptyData
  /\ now = 0
  /\ lastOp = NoOp
  /\ prevOp = NoOp
  /\ prevData = EmptyData
  /\ ops = 0

InitLocals ==
  /\ pending = <<>>
  /\ i = 0
  /\ m = 0
  /\ downloaded = FALSE
  /\ pdf_ready = FALSE
  /\ elapsed = 0
  /\ snap = NoSnap
  /\ cls = "LOADING"
  /\ page = "unbound"
  /\ newpage = "none"
  /\ leaked = {}
  /\ interrupted = FALSE

InitHist ==
  /\ lastOutcome = "none"
  /\ capturedAt = 0
  /\ started = 0
  /\ tried = <<>>
  /\ ret = "none"
  /\ excFrom = "none"
  /\ marks = [k \in Idx |-> <<>>]
  /\ opened = {}
  /\ probed = {}
  /\ sizeSeen = [k \in Idx |-> Unseen]
  /\ startData = EmptyData

Init ==
  /\ InitLedger
  /\ InitLocals
  /\ InitHist
  /\ pc = "start"
  /\ disk \in InitDisks
  /\ dois \in {<<>>, AllDois}
  /\ files \in [DOIS -> {NoFile} \cup Sizes]

(***************************************************************************)
(* main(): start-up.                                                       *)
(***************************************************************************)
Cur == pending[i]

pollVars == <<pdf_ready, elapsed, snap, cls>>
pageVars == <<page, newpage, leaked>>
opHist == <<lastOp, prevOp, prevData, ops>>
attemptHist == <<lastOutcome, capturedAt, started, tried, ret, excFrom>>
idHist == <<marks, opened, probed, sizeSeen>>

\* progress = DownloadProgress(PROGRESS_FILE); pending_dois, whose first
\* is_processed call may raise; sys.exit(0) when nothing is pending
Start ==
  /\ pc = "start"
  /\ data' = load(disk)
  /\ startData' = load(disk)
  /\ IF dois # <<>> /\ is_processed_raises(load(disk))
     THEN /\ pending' = <<>>
          /\ pc' = "crashed"
     ELSE /\ pending' = SelectSeq(dois, LAMBDA d : ~is_processed(load(disk), d))
          /\ pc' = IF pending' = <<>> THEN "exited" ELSE "prompt"
  /\ UNCHANGED <<disk, now, opHist, dois, i, m, downloaded, pollVars, files,
                 pageVars, interrupted, attemptHist, idHist>>

\* input() returns and the browser is launched
Begin ==
  /\ pc = "prompt"
  /\ pc' = "loop"
  /\ i' = 1
  /\ UNCHANGED <<ledgerVars, dois, pending, m, downloaded, pollVars, files,
                 pageVars, interrupted, histVars>>

\* Ctrl+C at the prompt, outside the try
AbortPrompt ==
  /\ pc = "prompt"
  /\ pc' = "aborted"
  /\ UNCHANGED <<ledgerVars, dois, pending, i, m, downloaded, pollVars, files,
                 pageVars, interrupted, histVars>>

(***************************************************************************)
(* main(): the process ends.  Leaving the `with sync_playwright()` block   *)
(* closes the browser and its pages; the locals of the mirror loop are     *)
(* gone.  "done" is the position after the final summary line, "crashed"   *)
(* the end by an exception other than KeyboardInterrupt.                   *)
(***************************************************************************)
Exit(to) ==
  /\ pc' = to
  /\ m' = 0
  /\ pdf_ready' = FALSE
  /\ elapsed' = 0
  /\ snap' = NoSnap
  /\ cls' = "LOADING"
  /\ page' = IF page = "unbound" THEN "unbound" ELSE "closed"
  /\ newpage' = "none"
  /\ leaked' = {}
  /\ lastOutcome' = "none"
  /\ tried' = <<>>
  /\ ret' = "none"
  /\ excFrom' = "none"

\* what Exit leaves alone, besides the ledger and pc
exitKeeps == <<dois, pending, i, downloaded, files, capturedAt, started, opened,
               probed, startData>>

\* a main() that swallows the exception of save() and goes on with the loop
SaveExit_masked(out) ==
  /\ Exit("loop")
  /\ interrupted' = FALSE

\* where a save() that did not end well takes main()
SaveExit(out) ==
  /\ Exit(IF out = "interrupt" THEN "done" ELSE "crashed")
  /\ interrupted' = (out = "interrupt")

(***************************************************************************)
(* main(): the loop over pending_dois.                                     *)
(***************************************************************************)
\* a loop that skips every other identifier
next_doi_skip(k) == k + 2

\* for i, doi in enumerate(pending_dois): the next identifier
next_doi(k) == k + 1

\* a mirror loop that stops after the first mirror
mirrors_left_one(k) == k <= 1

\* for mirror in SCIHUB_MIRRORS: a mirror is left to try
mirrors_left(k) == k <= NumMirrors

\* the for loop is exhausted: browser.close(), then the final summary
LoopEnd ==
  /\ pc = "loop"
  /\ i > Len(pending)
  /\ Exit("done")
  /\ UNCHANGED <<ledgerVars, exitKeeps, interrupted, marks, sizeSeen>>

\* the target file is already there: mark_downloaded and continue
SkipExisting(out) ==
  /\ pc = "loop"
  /\ i <= Len(pending)
  /\ file_present(files[Cur])
  /\ Mark("mark_downloaded", Cur, out)
  /\ sizeSeen' = [sizeSeen EXCEPT ![i] = files[Cur]]
  /\ marks' = [marks EXCEPT ![i] = Append(@, "mark_downloaded")]
  /\ IF out = "ok"
     THEN /\ i' = next_doi(i)
          /\ UNCHANGED <<pc, m, pollVars, pageVars, interrupted, lastOutcome, tried,
                         ret, excFrom>>
     ELSE /\ SaveExit(out)
          /\ UNCHANGED i
  /\ UNCHANGED <<dois, pending, downloaded, files, capturedAt, started, opened,
                 probed, startData>>

\* no valid target file: downloaded = False, enter the mirror loop
BeginMirrors ==
  /\ pc = "loop"
  /\ i <= Len(pending)
  /\ ~file_present(files[Cur])
  /\ sizeSeen' = [sizeSeen EXCEPT ![i] = files[Cur]]
  /\ downloaded' = FALSE
  /\ m' = 1
  /\ pc' = "mirror"
  /\ UNCHANGED <<ledgerVars, dois, pending, i, pollVars, files, pageVars,
                 interrupted, attemptHist, marks, opened, probed, startData>>

\* the mirror loop is exhausted
MirrorsDone ==
  /\ pc = "mirror"
  /\ ~mirrors_left(m)
  /\ pc' = "record"
  /\ UNCHANGED <<ledgerVars, dois, pending, i, m, downloaded, pollVars, files,
                 pageVars, interrupted, histVars>>

OpenResults == {"ok", "new_page_raises", "goto_raises"}

\* states of a page that is open in the browser
StillOpen == {"open", "stuck"}

\* page = context.new_page(); page.goto(url); a page still open that `page`
\* stops referring to is left behind
OpenPage(o) ==
  /\ pc = "mirror"
  /\ mirrors_left(m)
  /\ started' = started + 1
  /\ opened' = opened \cup {i}
  /\ page' = IF o = "new_page_raises" THEN page ELSE "open"
  /\ leaked' = IF o # "new_page_raises" /\ page \in StillOpen
               THEN leaked \cup {<<"page", page>>} ELSE leaked
  /\ IF o = "ok"
     THEN /\ pc' = "poll"
          /\ lastOutcome' = "none"
          /\ UNCHANGED excFrom
     ELSE /\ pc' = "except"
          /\ excFrom' = "open"
          /\ lastOutcome' = "ERROR"
  /\ pdf_ready' = IF o = "ok" THEN FALSE ELSE pdf_ready
  /\ UNCHANGED <<ledgerVars, dois, pending, i, m, downloaded, elapsed, snap, cls,
                 files, newpage, interrupted, capturedAt, tried, ret, marks, probed,
                 sizeSeen, startData>>

\* the while condition is false: the wait ceiling is reached
PollTimeout ==
  /\ pc = "poll"
  /\ ~may_poll(elapsed)
  /\ cls' = "TIMED_OUT"
  /\ lastOutcome' = "TIMED_OUT"
  /\ pc' = "close"
  /\ elapsed' = 0
  /\ UNCHANGED <<ledgerVars, dois, pending, i, m, downloaded, pdf_ready, snap,
                 files, pageVars, interrupted, capturedAt, started, tried, ret,
                 excFrom, idHist, startData>>

\* one iteration of the while loop on a page showing title flags and markers
PollStep(robot, unavailable, ms, cost) ==
  LET s == [robot |-> robot, unavailable |-> unavailable, content |-> has_content(ms)]
      c == classify(s)
  IN /\ pc = "poll"
     /\ may_poll(elapsed)
     /\ snap' = s
     /\ cls' = c
     /\ probed' = probed \cup {i}
     /\ CASE c = "UNAVAILABLE" ->
               /\ pc' = "close"
               /\ lastOutcome' = "UNAVAILABLE"
               /\ elapsed' = 0
               /\ UNCHANGED pdf_ready
          [] c = "READY" ->
               /\ pc' = "cap1"
               /\ pdf_ready' = TRUE
               /\ elapsed' = 0
               /\ UNCHANGED lastOutcome
          [] OTHER ->
               /\ elapsed' = elapsed + poll_cost(c, cost)
               /\ UNCHANGED <<pc, pdf_ready, lastOutcome>>
     /\ UNCHANGED <<ledgerVars, dois, pending, i, m, downloaded, files, pageVars,
                    interrupted, capturedAt, started, tried, ret, excFrom, marks,
                    opened, sizeSeen, startData>>

\* page.title() or a query_selector raises
PollRaises ==
  /\ pc = "poll"
  /\ may_poll(elapsed)
  /\ pc' = "except"
  /\ excFrom' = "poll"
  /\ lastOutcome' = "ERROR"
  /\ probed' = probed \cup {i}
  /\ elapsed' = 0
  /\ UNCHANGED <<ledgerVars, dois, pending, i, m, downloaded, pdf_ready, snap, cls,
                 files, pageVars, interrupted, capturedAt, started, tried, ret, marks,
                 opened, sizeSeen, startData>>
(***************************************************************************)
(* download_with_browser(page, pdf_path), called when pdf_ready.           *)
(***************************************************************************)
\* the isolated page once download_with_browser is left: one still open
\* has no variable referring to it any more
DropNewPage(np) ==
  /\ newpage' = "none"
  /\ leaked' = IF np \in {"open", "stuck"}
               THEN leaked \cup {<<"new_page", np>>} ELSE leaked

\* what follows strategy k ending as res, the isolated page being np
Continue(k, res, np) ==
  LET a == after_strategy(k, res)
  IN /\ tried' = Append(tried, res)
     /\ probed' = probed \cup {i}
     /\ CASE a = "return_true" ->
               /\ ret' = "True"
               /\ downloaded' = TRUE
               /\ capturedAt' = IF capturedAt = 0 THEN m ELSE capturedAt
               /\ lastOutcome' = "CAPTURED"
               /\ pc' = "close"
               /\ DropNewPage(np)
               /\ UNCHANGED excFrom
          [] a = "return_false" ->
               /\ ret' = "False"
               /\ lastOutcome' = "CAPTURE_FAILED"
               /\ pc' = "close"
               /\ DropNewPage(np)
               /\ UNCHANGED <<downloaded, capturedAt, excFrom>>
          [] a = "next" ->
               /\ pc' = IF k = 1 THEN "cap2" ELSE "cap3"
               /\ newpage' = np
               /\ UNCHANGED <<ret, downloaded, capturedAt, lastOutcome, excFrom, leaked>>
          [] OTHER ->
               /\ pc' = "except"
               /\ excFrom' = "capture"
               /\ lastOutcome' = "ERROR"
               /\ DropNewPage(np)
               /\ UNCHANGED <<ret, downloaded, capturedAt>>

CapPc(k) == IF k = 1 THEN "cap1" ELSE "cap2"

\* strategy 1 (save button) or 2 (PDF link): the element is absent, or the
\* query, the click, the download wait or save_as raises
StrategyMiss(k, res) ==
  /\ pc = CapPc(k)
  /\ Continue(k, res, newpage)
  /\ UNCHANGED <<ledgerVars, dois, pending, i, m, pollVars, files, page,
                 interrupted, started, marks, opened, sizeSeen, startData>>

\* what save_as can leave at the target path: a file of one of the sizes,
\* or no file
SavedSizes == Sizes \cup {NoFile}

\* strategy 1 or 2: the download is saved with size s, then the size test
StrategySave(k, s) ==
  /\ pc = CapPc(k)
  /\ files' = [files EXCEPT ![Cur] = s]
  /\ Continue(k, saved_result(s), newpage)
  /\ UNCHANGED <<ledgerVars, dois, pending, i, m, pollVars, page,
                 interrupted, started, marks, opened, sizeSeen, startData>>

\* strategy 3: no embed/iframe source, or a query or new_page() raises
Strategy3Miss(res) ==
  /\ pc = "cap3"
  /\ Continue(3, res, newpage)
  /\ UNCHANGED <<ledgerVars, dois, pending, i, m, pollVars, files, page,
                 interrupted, started, marks, opened, sizeSeen, startData>>

\* strategy 3: new_page = page.context.new_page()
Strategy3Open ==
  /\ pc = "cap3"
  /\ pc' = "cap3_dl"
  /\ newpage' = "open"
  /\ UNCHANGED <<ledgerVars, dois, pending, i, m, downloaded, pollVars, files,
                 page, leaked, interrupted, histVars>>

\* how a close(), with the retry of the handler where there is one, ends:
\* closed at once, closed by the retry, or raised with the page left open or gone
CloseResults == {"ok", "fail_open", "fail_closed"}
NewPageCloses == CloseResults \cup {"retry_ok"}

\* a close() that does nothing
Closed_skipped(before, c) == before

\* the state of a page after a close() that ended as c
Closed(before, c) ==
  IF before = "unbound" THEN "unbound"
  ELSE IF c = "fail_open" THEN (IF before = "closed" THEN "closed" ELSE "stuck")
  ELSE "closed"

\* strategy 3 in the new page: goto and the download wait; s is the size
\* saved, NoFile when the wait or save_as raised; c is how new_page.close()
\* went (line 167 and, after a raise, line 172)
Strategy3Download(s, c) ==
  /\ pc = "cap3_dl"
  /\ s = NoFile => c # "retry_ok"
  /\ files' = IF s = NoFile THEN files ELSE [files EXCEPT ![Cur] = s]
  /\ Continue(3, IF s = NoFile \/ c # "ok" THEN "raised" ELSE saved_result(s),
              Closed("open", c))
  /\ UNCHANGED <<ledgerVars, dois, pending, i, m, pollVars, page,
                 interrupted, started, marks, opened, sizeSeen, startData>>

(***************************************************************************)
(* main(): the end of a mirror attempt and the ledger update.              *)
(***************************************************************************)
\* page.close() and `if downloaded: break`; a close that raises skips the
\* break and lands in the except clause
ClosePage(c) ==
  /\ pc = "close"
  /\ page' = Closed(page, c)
  /\ IF c = "ok"
     THEN /\ pc' = IF downloaded THEN "record" ELSE "mirror"
          /\ m' = IF downloaded THEN m ELSE m + 1
          /\ UNCHANGED excFrom
     ELSE /\ pc' = "except"
          /\ excFrom' = "close"
          /\ UNCHANGED m
  /\ tried' = <<>>
  /\ ret' = "none"
  /\ snap' = NoSnap
  /\ cls' = "LOADING"
  /\ UNCHANGED <<ledgerVars, dois, pending, i, downloaded, pdf_ready, elapsed, files,
                 newpage, leaked, interrupted, lastOutcome, capturedAt, started,
                 idHist, startData>>

\* a main() without the except clause: the exception ends the run
Except_abort(c) ==
  /\ pc = "except"
  /\ Exit("crashed")
  /\ UNCHANGED <<ledgerVars, exitKeeps, interrupted, marks, sizeSeen>>

\* except Exception: try page.close() except pass; then the next mirror
Except(c) ==
  /\ pc = "except"
  /\ page' = Closed(page, c)
  /\ m' = m + 1
  /\ pc' = "mirror"
  /\ excFrom' = "none"
  /\ tried' = <<>>
  /\ ret' = "none"
  /\ snap' = NoSnap
  /\ cls' = "LOADING"
  /\ UNCHANGED <<ledgerVars, dois, pending, i, downloaded, pdf_ready, elapsed, files,
                 newpage, leaked, interrupted, lastOutcome, capturedAt, started,
                 idHist, startData>>

\* the call that records the result
result_call(dl) == IF dl THEN "mark_downloaded" ELSE "mark_failed"

\* if downloaded: mark_downloaded else mark_failed
Record(out) ==
  /\ pc = "record"
  /\ Mark(result_call(downloaded), Cur, out)
  /\ marks' = [marks EXCEPT ![i] = Append(@, result_call(downloaded))]
  /\ IF out = "ok"
     THEN /\ pc' = "stats"
          /\ UNCHANGED <<m, pollVars, pageVars, interrupted, lastOutcome, tried, ret,
                         excFrom>>
     ELSE SaveExit(out)
  /\ UNCHANGED <<dois, pending, i, downloaded, files, capturedAt, started, opened,
                 probed, sizeSeen, startData>>

\* the statistics line and the half-second sleep; on to the next identifier
Stats ==
  /\ pc = "stats"
  /\ pc' = "loop"
  /\ i' = next_doi(i)
  /\ lastOutcome' = "none"
  /\ capturedAt' = 0
  /\ started' = 0
  /\ UNCHANGED <<ledgerVars, dois, pending, m, downloaded, pollVars, files,
                 pageVars, interrupted, tried, ret, excFrom, idHist, startData>>

\* positions inside the try of main()
InTry == {"loop", "mirror", "poll", "cap1", "cap2", "cap3", "cap3_dl", "close",
          "except", "record", "stats"}

\* Ctrl+C inside the try: except KeyboardInterrupt, then the final summary
Interrupt ==
  /\ pc \in InTry
  /\ Exit("done")
  /\ interrupted' = TRUE
  /\ UNCHANGED <<ledgerVars, exitKeeps, marks, sizeSeen>>

\* positions at which the process is over
Ended == {"done", "exited", "crashed", "aborted"}

\* the steps the program takes by itself
Step ==
  \/ Start
  \/ LoopEnd
  \/ \E out \in SaveOutcomes : SkipExisting(out)
  \/ BeginMirrors
  \/ MirrorsDone
  \/ \E o \in OpenResults : OpenPage(o)
  \/ PollTimeout
  \/ \E robot \in BOOLEAN, unavailable \in BOOLEAN, ms \in PageContents,
        cost \in PollCosts : PollStep(robot, unavailable, ms, cost)
  \/ PollRaises
  \/ \E k \in {1, 2}, res \in {"absent", "raised"} : StrategyMiss(k, res)
  \/ \E k \in {1, 2}, s \in SavedSizes : StrategySave(k, s)
  \/ \E res \in {"absent", "raised"} : Strategy3Miss(res)
  \/ Strategy3Open
  \/ \E s \in Sizes \cup {NoFile}, c \in NewPageCloses : Strategy3Download(s, c)
  \/ \E c \in CloseResults : ClosePage(c)
  \/ \E c \in CloseResults : Except(c)
  \/ \E out \in SaveOutcomes : Record(out)
  \/ Stats

\* what the operator does
Operator ==
  \/ Begin
  \/ AbortPrompt
  \/ Interrupt

Next == Step \/ Operator

Spec == Init /\ [][Next]_vars

\* the process keeps running: it takes its next step while it has one
FairSpec == Spec /\ WF_vars(Step)

(***************************************************************************)
(* The ledger by itself: a fresh DownloadProgress (no progress file) and   *)
(* any sequence of mark calls on it.                                       *)
(***************************************************************************)
LedgerInit ==
  /\ InitLedger
  /\ InitLocals
  /\ InitHist
  /\ disk = MissingFile
  /\ pc = "api"
  /\ dois = <<>>
  /\ files = [d \in DOIS |-> NoFile]

ApiMarkDownloaded(doi, out) ==
  /\ pc = "api"
  /\ ops < MaxOps
  /\ Mark("mark_downloaded", doi, out)
  /\ UNCHANGED <<mainVars, histVars>>

ApiMarkFailed(doi, out) ==
  /\ pc = "api"
  /\ ops < MaxOps
  /\ Mark("mark_failed", doi, out)
  /\ UNCHANGED <<mainVars, histVars>>

LedgerNext ==
  \/ \E doi \in DOIS, out \in SaveOutcomes : ApiMarkDownloaded(doi, out)
  \/ \E doi \in DOIS, out \in SaveOutcomes : ApiMarkFailed(doi, out)

LedgerSpec == LedgerInit /\ [][LedgerNext]_vars

(***************************************************************************)
(* Claims about the ledger, checked under LedgerSpec.                      *)
(***************************************************************************)
\* C1: starting from an empty ledger, after any sequence of mark calls no
\* identifier is in both the downloaded and the failed list, and
\* is_processed(d) holds exactly when d is in exactly one of the two.
C1_AtMostOneList ==
  \A d \in DOIS :
    /\ ~(In(d, data.downloaded) /\ In(d, data.failed))
    /\ is_processed(data, d) <=> (In(d, data.downloaded) # In(d, data.failed))

\* an identifier that was marked failed and then downloaded, beside one
\* that is failed
C1_Witness ==
  /\ pc = "api"
  /\ \E d \in DOIS, e \in DOIS :
       /\ d # e
       /\ prevOp = <<"mark_failed", d>>
       /\ In(d, prevData.failed)
       /\ lastOp = <<"mark_downloaded", d>>
       /\ In(d, data.downloaded)
       /\ In(e, data.failed)

\* C2: downloaded wins over failed in either order: mark_downloaded(d)
\* leaves d in downloaded and not in failed, also after a mark_failed(d);
\* mark_failed(d) on a downloaded d changes neither list; an identifier in
\* downloaded before a mark call is in downloaded and not in failed after it.
C2_DownloadedWins ==
  \A d \in DOIS :
    /\ lastOp = <<"mark_downloaded", d>> =>
         In(d, data.downloaded) /\ ~In(d, data.failed)
    /\ (lastOp = <<"mark_failed", d>> /\ In(d, prevData.downloaded)) =>
         /\ data.downloaded = prevData.downloaded
         /\ data.failed = prevData.failed
    /\ (lastOp # NoOp /\ In(d, prevData.downloaded)) =>
         In(d, data.downloaded) /\ ~In(d, data.failed)

\* mark_failed(d) was called on a d that mark_downloaded had taken out of
\* the failed list
C2_Witness ==
  /\ pc = "api"
  /\ \E d \in DOIS :
       /\ prevOp = <<"mark_downloaded", d>>
       /\ lastOp = <<"mark_failed", d>>
       /\ In(d, data.downloaded)
       /\ ops >= 3

\* C3: a second mark_downloaded(d) in a row changes neither list and d is
\* in downloaded once; a mark_failed(d) on an already failed d changes
\* neither list and d is in failed once.
C3_Idempotent ==
  \A d \in DOIS :
    /\ (lastOp = <<"mark_downloaded", d>> /\ prevOp = <<"mark_downloaded", d>>) =>
         /\ data.downloaded = prevData.downloaded
         /\ data.failed = prevData.failed
         /\ Count(d, data.downloaded) = 1
    /\ (lastOp = <<"mark_failed", d>> /\ In(d, prevData.failed)) =>
         /\ data.downloaded = prevData.downloaded
         /\ data.failed = prevData.failed
         /\ Count(d, data.failed) = 1

\* mark_downloaded(d) twice in a row, on a ledger that holds another
\* identifier as failed
C3_Witness ==
  /\ pc = "api"
  /\ \E d \in DOIS, e \in DOIS :
       /\ lastOp = <<"mark_downloaded", d>>
       /\ prevOp = <<"mark_downloaded", d>>
       /\ In(e, data.failed)

(***************************************************************************)
(* Claims about main(), checked under Spec.                                *)
(***************************************************************************)
\* the existing-file check has looked at the identifier at index k
Seen(k) == sizeSeen[k] # Unseen

\* C4, as stated: a pending identifier whose target file is present with
\* size >= 1000 bytes is marked downloaded with no page opened, no poll and
\* no capture strategy run for it.
C4_SkipAtThreshold ==
  \A k \in Idx :
    (Seen(k) /\ sizeSeen[k] # NoFile /\ sizeSeen[k] >= MIN_SIZE) =>
      /\ marks[k] = <<"mark_downloaded">>
      /\ In(pending[k], data.downloaded)
      /\ k \notin opened
      /\ k \notin probed

\* C4, amended: a pending identifier whose target file is present with
\* size > 1000 bytes is marked downloaded with no page opened, no poll and
\* no capture strategy run for it.
C4_SkipAboveThreshold ==
  \A k \in Idx :
    (Seen(k) /\ sizeSeen[k] # NoFile /\ sizeSeen[k] > MIN_SIZE) =>
      /\ marks[k] = <<"mark_downloaded">>
      /\ In(pending[k], data.downloaded)
      /\ k \notin opened
      /\ k \notin probed

\* the second pending identifier was skipped for its file, after pages had
\* been opened for the first
C4_Witness ==
  /\ Len(pending) = 2
  /\ i = 3
  /\ sizeSeen[2] > MIN_SIZE
  /\ marks[2] = <<"mark_downloaded">>
  /\ opened = {1}

\* outcomes of a mirror attempt that count as failed
Failures == {"UNAVAILABLE", "TIMED_OUT", "CAPTURE_FAILED", "ERROR"}

\* C5: after a failed attempt on a mirror that is not the last, the next
\* mirror is attempted before the identifier is marked failed; when no
\* mirror captured, exactly one mark call, mark_failed, is made for the
\* identifier, and it is in failed and not in downloaded from then on.
C5_MirrorFallback ==
  /\ (pc = "mirror" /\ lastOutcome \in Failures /\ started < NumMirrors) =>
       m = started + 1 /\ m <= NumMirrors
  /\ (pc = "record" /\ ~downloaded) => started = NumMirrors
  /\ \A k \in Idx :
       /\ Len(marks[k]) <= 1
       /\ (k = i /\ In("mark_failed", marks[k])) => started = NumMirrors
       /\ (k = i /\ marks[k] # <<>> /\ sizeSeen[k] # Unseen
             /\ ~file_present(sizeSeen[k]) /\ capturedAt = 0) =>
            marks[k] = <<"mark_failed">>
       /\ marks[k] = <<"mark_failed">> =>
            In(pending[k], data.failed) /\ ~In(pending[k], data.downloaded)

\* every mirror was tried and failed, the last by the wait ceiling, and the
\* identifier was marked failed
C5_Witness ==
  /\ pc = "stats"
  /\ capturedAt = 0
  /\ started = NumMirrors
  /\ lastOutcome = "TIMED_OUT"
  /\ marks[i] = <<"mark_failed">>
  /\ In(Cur, data.failed)

\* C6: once the capture on a mirror has succeeded, no attempt is begun
\* on a later mirror for that identifier.
C6_StopAtFirstSuccess ==
  capturedAt # 0 => started = capturedAt

\* positions inside download_with_browser
CapPcs == {"cap1", "cap2", "cap3", "cap3_dl"}

\* C7: every poll classifies the page by the first match of challenge
\* title, unavailable title, ready content, else loading; a challenge
\* page stays in the wait loop and the capturer runs only for a page
\* classified READY, whose title is not the challenge title (a challenge
\* page leaves the loop only by a later poll that raises).
C7_ClassificationPrecedence ==
  /\ (pc \in {"poll", "close", "except"} \cup CapPcs /\ cls # "TIMED_OUT") =>
       /\ snap.robot => cls = "CHALLENGE"
       /\ (~snap.robot /\ snap.unavailable) => cls = "UNAVAILABLE"
       /\ (~snap.robot /\ ~snap.unavailable /\ snap.content) => cls = "READY"
       /\ (~snap.robot /\ ~snap.unavailable /\ ~snap.content) => cls = "LOADING"
  /\ cls = "CHALLENGE" =>
       /\ pc = "poll" \/ (pc = "except" /\ excFrom = "poll")
       /\ ~pdf_ready
  /\ pc \in CapPcs => cls = "READY" /\ ~snap.robot /\ pdf_ready

\* a poll saw the challenge title on a page that also shows content, and
\* the loop goes on
C7_Witness ==
  /\ pc = "poll"
  /\ snap.robot
  /\ snap.content
  /\ cls = "CHALLENGE"
  /\ elapsed > 0

\* positions of a mirror attempt, from the page open to the except clause
AttemptPcs == {"poll", "close", "except"} \cup CapPcs

\* C8: the identifiers are handled in input order and each mirror attempt
\* is on the next mirror of the list; an identifier whose processing is
\* complete has had exactly one mark call, one not yet reached has had
\* none and no page, and the mark call of the current identifier comes
\* after its last mirror attempt: once it is made no attempt follows.
C8_OnceAndInOrder ==
  /\ pending = SelectSeq(dois, LAMBDA d : d \in Elems(pending))
  /\ ops = Cardinality({k \in Idx : marks[k] # <<>>})
  /\ pc \in AttemptPcs => started = m /\ m <= NumMirrors
  /\ \A k \in Idx :
       /\ Len(marks[k]) <= 1
       /\ (k < i /\ k <= Len(pending)) => Len(marks[k]) = 1 /\ Seen(k)
       /\ k > i => marks[k] = <<>> /\ ~Seen(k) /\ k \notin opened /\ k \notin probed
       /\ (k = i /\ marks[k] # <<>>) => pc \in {"stats"} \cup Ended
       /\ (k = i /\ pc \in AttemptPcs \cup {"mirror", "record"}) => marks[k] = <<>>

\* both identifiers were handled, the first by mirror attempts and the
\* second too, and the run ended by itself
C8_Witness ==
  /\ pc = "done"
  /\ ~interrupted
  /\ Len(pending) = 2
  /\ i = 3
  /\ opened = {1, 2}
  /\ marks[1] = <<"mark_failed">>
  /\ marks[2] = <<"mark_downloaded">>

\* every pending identifier is in the ledger
AllRecorded == \A k \in 1..Len(pending) : is_processed(data, pending[k])

\* C9, as stated: a run that ends without an operator interrupt has
\* recorded every pending identifier.
C9_AllRecordedUnlessInterrupted ==
  (pc \in {"done", "crashed"} /\ ~interrupted) => AllRecorded

\* C9, amended: an iteration that stays in the poll loop is made below the
\* wait ceiling and takes at least CHECK_INTERVAL, the loop is left at the
\* ceiling with TIMED_OUT, and from every position of the identifier loop,
\* the poll loop included, the run ends; a run that ends neither by an operator
\* interrupt nor by a failed ledger write has recorded every pending
\* identifier.
C9_BoundedAttempts ==
  /\ [][(pc = "poll" /\ pc' = "poll") =>
          /\ elapsed < MAX_WAIT_TIME
          /\ elapsed' >= elapsed + CHECK_INTERVAL]_vars
  /\ [][(pc = "poll" /\ elapsed >= MAX_WAIT_TIME /\ pc' \notin Ended) =>
          pc' = "close" /\ cls' = "TIMED_OUT"]_vars
  /\ [](pc \in InTry => <>(pc \in Ended))
  /\ []((pc = "done" /\ ~interrupted) => AllRecorded)

\* a wait loop that saw the challenge until the ceiling has ended TIMED_OUT
C9_Witness ==
  /\ pc = "close"
  /\ cls = "TIMED_OUT"
  /\ snap.robot
  /\ lastOutcome = "TIMED_OUT"

\* C10: the k-th strategy attempted is strategy k; no strategy is attempted
\* after one that succeeded; True is returned exactly when the last
\* strategy attempted succeeded and False only after all three were
\* attempted, whichever of them were absent, raised or saved too small a
\* file; no exception leaves download_with_browser.
C10_CapturerFallback ==
  /\ pc = "cap1" => tried = <<>>
  /\ pc = "cap2" => Len(tried) = 1
  /\ pc \in {"cap3", "cap3_dl"} => Len(tried) = 2
  /\ \A k \in 1..Len(tried) : tried[k] = "ok" => k = Len(tried)
  /\ pc \in CapPcs => ret = "none" /\ \A k \in 1..Len(tried) : tried[k] # "ok"
  /\ ret = "True" <=> (tried # <<>> /\ tried[Len(tried)] = "ok")
  /\ ret = "False" => Len(tried) = 3
  /\ (tried # <<>> /\ pc \notin CapPcs) => ret \in {"True", "False"}
  /\ excFrom # "capture"

\* the first strategy raised, the second saved too small a file, the third
\* succeeded and True was returned
C10_Witness ==
  /\ pc = "close"
  /\ tried = <<"raised", "small", "ok">>
  /\ ret = "True"
  /\ downloaded

\* a strategy has just saved a download: its entry of `tried` is neither
\* "absent" nor "raised"
JustSaved ==
  /\ pc \in CapPcs
  /\ Len(tried') = Len(tried) + 1
  /\ tried'[Len(tried')] \notin {"absent", "raised"}

\* C11: download_with_browser returns True only when the target file
\* exists with size > 1000 bytes after the save of the strategy that
\* succeeded; a strategy whose save leaves no file or one of <= 1000 bytes
\* does not return True: the next strategy is attempted, or False is
\* returned after the third.
C11_CaptureValidation ==
  /\ [](ret = "True" => (files[Cur] # NoFile /\ files[Cur] > MIN_SIZE))
  /\ [][(JustSaved /\ (files'[Cur] = NoFile \/ files'[Cur] <= MIN_SIZE)) =>
          /\ ret' # "True"
          /\ Len(tried) < 2 => pc' = (IF Len(tried) = 0 THEN "cap2" ELSE "cap3")
          /\ Len(tried) = 2 => ret' = "False" /\ pc' = "close"]_vars

\* the first strategy left a file of exactly 1000 bytes, the second then
\* saved 1001 bytes and True was returned
C11_Witness ==
  /\ pc = "close"
  /\ tried = <<"small", "ok">>
  /\ ret = "True"
  /\ files[Cur] = MIN_SIZE + 1
  /\ sizeSeen[i] = NoFile

\* a progress file that is missing, unparseable or of the wrong shape
Corrupt(f) == f.kind # "json" \/ f.downloaded = None

\* C12: after the load of a missing or corrupt progress file (unparseable,
\* or of the wrong shape) the ledger holds empty downloaded and failed
\* lists, and the is_processed calls that follow do not end the run.
C12_LoadFailureResets ==
  (pc # "start" /\ ops = 0 /\ Corrupt(disk)) =>
    /\ data.downloaded = <<>>
    /\ data.failed = <<>>
    /\ pc # "crashed"

\* C13: whenever a mark_downloaded or mark_failed call has returned to
\* main(), the progress file is the JSON of self.data: the same downloaded
\* and failed sequences (and the same last_update), until the next call.
C13_PersistedAfterMark ==
  (ops > 0 /\ pc \notin Ended) =>
    /\ disk.kind = "json"
    /\ disk.downloaded = data.downloaded
    /\ disk.failed = data.failed
    /\ disk.last_update = data.last_update

\* two mark calls have returned, one of each kind, on a ledger that was
\* loaded from a truncated file
C13_Witness ==
  /\ pc = "stats"
  /\ ops = 2
  /\ startData = EmptyData
  /\ Len(data.downloaded) = 1
  /\ Len(data.failed) = 1
  /\ lastOp[1] = "mark_failed"
  /\ disk.failed = data.failed

\* C14: however the run ends (every identifier processed, nothing pending
\* at start-up, an operator interrupt, a propagated error), it ends after
\* the final summary line, which is position "done".
C14_SummaryAlways ==
  pc \in Ended => pc = "done"

\* the progress file is what a save() of self.data that went well leaves
Persisted ==
  /\ disk.kind = "json"
  /\ disk.downloaded = data.downloaded
  /\ disk.failed = data.failed
  /\ disk.last_update = data.last_update

\* C15: a mark call whose write to the progress file failed (the file is
\* not the JSON of self.data afterwards, and no interrupt arrived) ends the
\* run with the exception; from there no step is taken, so no further
\* identifier is attempted or recorded.
C15_PersistFailureFatal ==
  /\ [][(ops' = ops + 1 /\ ~Persisted' /\ ~interrupted') => pc' = "crashed"]_vars
  /\ [][pc # "crashed"]_vars
  /\ [](pc = "crashed" =>
          \A k \in Idx : k > i => (marks[k] = <<>> /\ k \notin opened))

\* the write of the first identifier's mark_failed failed after both
\* mirrors had been tried; the second identifier is pending and untouched
C15_Witness ==
  /\ pc = "crashed"
  /\ ops = 1
  /\ i = 1
  /\ Len(pending) = 2
  /\ disk.kind = "partial"
  /\ marks[1] = <<"mark_failed">>
  /\ marks[2] = <<>>
  /\ opened = {1}
  /\ ~is_processed(data, pending[2])

\* positions between two mirror attempts and at the ledger update
Between == {"mirror", "record", "stats", "loop"}

CaughtLocally ==
  /\ [][pc = "except" =>
          \/ pc' = "mirror" /\ m' = m + 1 /\ i' = i
          \/ pc' = "done" /\ interrupted']_vars
  /\ [][(pc \in AttemptPcs /\ pc' \in Ended) => (pc' = "done" /\ interrupted')]_vars
  /\ [][pc = "stats" =>
          \/ pc' = "loop" /\ i' = i + 1
          \/ pc' = "done" /\ interrupted']_vars

C18_DownloadedImpliesFile ==
  /\ (pc = "stats" /\ marks[i] = <<"mark_downloaded">>) =>
       (files[Cur] # NoFile /\ files[Cur] > MIN_SIZE)
  /\ \A k \in Idx :
       (marks[k] = <<"mark_downloaded">> /\ k \notin opened) =>
         (sizeSeen[k] # NoFile /\ sizeSeen[k] > MIN_SIZE)

\* C19: after a run that an operator interrupt ended, wherever it arrived,
\* the load of the next start-up reports as processed every identifier
\* that was in the progress file before the interrupt; prevData is the
\* ledger as it was in memory and on file before the last mark call.
C19_InterruptKeepsProgress ==
  (pc = "done" /\ interrupted) =>
    \A d \in DOIS : is_processed(prevData, d) => is_processed(load(disk), d)

\* C20: an identifier that the ledger loaded at start-up holds as
\* downloaded or failed is not pending; during the run no mirror attempt
\* and no mark call is made for it, and it stays in the list it was in.
C20_ResumptionFrame ==
  \A d \in DOIS :
    (pc # "start" /\ (In(d, startData.downloaded) \/ In(d, startData.failed))) =>
      /\ ~In(d, pending)
      /\ lastOp[2] # d /\ prevOp[2] # d
      /\ (pc \in AttemptPcs \cup {"mirror", "record", "stats"}) => Cur # d
      /\ Count(d, data.downloaded) = Count(d, startData.downloaded)
      /\ Count(d, data.failed) = Count(d, startData.failed)

\* a run that found the last identifier of the input recorded as failed
\* tried the mirrors for the other one, recorded it and ended
C20_Witness ==
  /\ pc = "done"
  /\ ~interrupted
  /\ In(Last, startData.failed)
  /\ Len(dois) = 2
  /\ Len(pending) = 1
  /\ opened = {1}
  /\ ops = 1
  /\ data.failed = <<Last, AllDois[1]>>
====
